---------------------------- MODULE Spec2Model ----------------------------
(***************************************************************************)
(* Model of the Skandia "Kontoutdrag" importer                             *)
(* (src/beangulp_skandia/importer.py, class SkandiaXlsx).                  *)
(*                                                                         *)
(* Representation.                                                         *)
(*   - A Python str is a sequence of one-character strings.  The character *)
(*     "nbsp" stands for U+00A0, "o^" / "O^" for o-umlaut / O-umlaut.      *)
(*   - A missing spreadsheet cell (pandas NaN) is the text NaN.            *)
(*   - A Python dict is a sequence of <<key, value>> pairs with distinct   *)
(*     keys, in insertion order.                                           *)
(*   - An account name is an atomic string; None is the string NoneStr.    *)
(*   - A Decimal is [tag, neg, coeff, exp], value (-1)^neg*coeff*10^-exp.  *)
(***************************************************************************)
EXTENDS Integers, Sequences, FiniteSets, TLC

VARIABLES
    self,   \* the SkandiaXlsx instance: constructor and runtime fields
    cfg,    \* what config_path points at on disk
    file,   \* the statement file the operations are called with
    ret     \* the last operation called and what it returned or raised

vars == <<self, cfg, file, ret>>

---------------------------------------------------------------------------
(* Python str helpers *)

NoneStr == "<None>"

NaN == <<"<NaN>">>

Digits == {"0", "1", "2", "3", "4", "5", "6", "7", "8", "9"}

Whitespace == {" ", "nbsp"}

IsDigit(c) == c \in Digits

DigitVal(c) ==
    CASE c = "0" -> 0 [] c = "1" -> 1 [] c = "2" -> 2 [] c = "3" -> 3
      [] c = "4" -> 4 [] c = "5" -> 5 [] c = "6" -> 6 [] c = "7" -> 7
      [] c = "8" -> 8 [] c = "9" -> 9

LowerChar(c) ==
    CASE c = "A" -> "a" [] c = "B" -> "b" [] c = "C" -> "c" [] c = "D" -> "d"
      [] c = "E" -> "e" [] c = "F" -> "f" [] c = "G" -> "g" [] c = "H" -> "h"
      [] c = "I" -> "i" [] c = "J" -> "j" [] c = "K" -> "k" [] c = "L" -> "l"
      [] c = "M" -> "m" [] c = "N" -> "n" [] c = "O" -> "o" [] c = "P" -> "p"
      [] c = "Q" -> "q" [] c = "R" -> "r" [] c = "S" -> "s" [] c = "T" -> "t"
      [] c = "U" -> "u" [] c = "V" -> "v" [] c = "W" -> "w" [] c = "X" -> "x"
      [] c = "Y" -> "y" [] c = "Z" -> "z" [] c = "O^" -> "o^"
      [] OTHER -> c

\* str.lower()
Lower(s) == [i \in 1..Len(s) |-> LowerChar(s[i])]

\* "".join(ch for ch in s if ch in keep)
RECURSIVE Filter(_, _)
Filter(s, keep) ==
    IF s = <<>> THEN <<>>
    ELSE IF Head(s) \in keep THEN <<Head(s)>> \o Filter(Tail(s), keep)
    ELSE Filter(Tail(s), keep)

\* s.replace(c, "") for a one-character c
RECURSIVE Remove(_, _)
Remove(s, c) ==
    IF s = <<>> THEN <<>>
    ELSE IF Head(s) = c THEN Remove(Tail(s), c)
    ELSE <<Head(s)>> \o Remove(Tail(s), c)

\* s.replace(c, d) for one-character c and d
Replace(s, c, d) == [i \in 1..Len(s) |-> IF s[i] = c THEN d ELSE s[i]]

RECURSIVE LStrip(_)
LStrip(s) ==
    IF s # <<>> /\ Head(s) \in Whitespace THEN LStrip(Tail(s)) ELSE s

RECURSIVE RStrip(_)
RStrip(s) ==
    IF s # <<>> /\ s[Len(s)] \in Whitespace
    THEN RStrip(SubSeq(s, 1, Len(s) - 1)) ELSE s

\* str.strip()
Strip(s) == RStrip(LStrip(s))

\* k in s  (substring test)
Contains(s, k) ==
    \E i \in 1..(Len(s) - Len(k) + 1) :
        \A j \in 1..Len(k) : s[i + j - 1] = k[j]

\* s.split(): the whitespace-separated tokens of s, in order
RECURSIVE Split(_, _)
Split(s, cur) ==
    IF s = <<>> THEN (IF cur = <<>> THEN <<>> ELSE <<cur>>)
    ELSE IF Head(s) \in Whitespace
         THEN (IF cur = <<>> THEN <<>> ELSE <<cur>>) \o Split(Tail(s), <<>>)
         ELSE Split(Tail(s), Append(cur, Head(s)))

\* str(x) of a cell read with dtype=str: a missing cell prints as "nan"
Str(x) == IF x = NaN THEN <<"n", "a", "n">> ELSE x

\* pd.isna / pd.notna on a cell
IsNa(x) == x = NaN

---------------------------------------------------------------------------
(* decimal.Decimal *)

Dec(neg, coeff, exp) == [tag |-> "dec", neg |-> neg, coeff |-> coeff, exp |-> exp]

DecZero == Dec(FALSE, 0, 0)

\* None where an Optional[Decimal] is expected
DecNone == [tag |-> "none", neg |-> FALSE, coeff |-> 0, exp |-> 0]

\* the outcome "the conversion raised"
DecRaised == [tag |-> "raised", neg |-> FALSE, coeff |-> 0, exp |-> 0]

RECURSIVE Pow10(_)
Pow10(n) == IF n = 0 THEN 1 ELSE 10 * Pow10(n - 1)

RECURSIVE DigitsVal(_)
DigitsVal(s) ==
    IF s = <<>> THEN 0 ELSE 10 * DigitsVal(SubSeq(s, 1, Len(s) - 1)) + DigitVal(s[Len(s)])

\* Decimal.__eq__: numeric equality, whatever the exponents
DecEq(a, b) ==
    /\ a.tag = "dec" /\ b.tag = "dec"
    /\ a.coeff * Pow10(b.exp) = b.coeff * Pow10(a.exp)
    /\ (a.coeff = 0 \/ a.neg = b.neg)

DecIsZero(a) == a.tag = "dec" /\ a.coeff = 0

\* Decimal.__neg__ (within the context's precision): -0 is 0
DecNeg(a) == IF a.coeff = 0 THEN Dec(FALSE, 0, a.exp) ELSE Dec(~a.neg, a.coeff, a.exp)

\* Decimal(s) for s over digits, ".", "-", "+" and other characters:
\* [sign] digits [ "." digits ] | [sign] "." digits ; anything else raises
\* InvalidOperation.
DecimalOf(s0) ==
    LET s    == Strip(s0)
        sgn  == s # <<>> /\ Head(s) \in {"-", "+"}
        body == IF sgn THEN Tail(s) ELSE s
        dots == {i \in 1..Len(body) : body[i] = "."}
        ok   == /\ \A i \in 1..Len(body) : body[i] \in Digits \cup {"."}
                /\ Cardinality(dots) <= 1
                /\ \E i \in 1..Len(body) : body[i] \in Digits
        dot  == IF dots = {} THEN Len(body) + 1 ELSE CHOOSE i \in dots : TRUE
        ip   == SubSeq(body, 1, dot - 1)
        fp   == SubSeq(body, dot + 1, Len(body))
    IN  IF ok THEN Dec(sgn /\ Head(s) = "-", DigitsVal(ip \o fp), Len(fp))
        ELSE DecRaised

---------------------------------------------------------------------------
(* Numeric / date normalisation *)

\* the separators removed and the decimal comma turned into a point
Delocalise(x) ==
    Replace(Remove(Remove(Remove(Str(x), "nbsp"), " "), "."), ",", ".")

\* re.sub(r"[^0-9\.-]", "", s)
KeepNumeric(s) == Filter(s, Digits \cup {".", "-"})

\* to_decimal in _data_frame: a missing cell is 0; a text that fails
\* Decimal() is retried with only digits, "." and "-" kept, and that
\* retry is not guarded
to_decimal(x) ==
    IF IsNa(x) THEN DecZero
    ELSE LET s  == Delocalise(x)
             s2 == KeepNumeric(s)
         IN  IF DecimalOf(s).tag = "dec" THEN DecimalOf(s)
             ELSE DecimalOf(IF s2 = <<>> THEN <<"0">> ELSE s2)

\* parse_balance in _append_balance_assertions: None for a missing cell
\* and when the retry fails too
parse_balance(x) ==
    IF IsNa(x) THEN DecNone
    ELSE LET s  == Delocalise(x)
             s2 == KeepNumeric(s)
         IN  IF DecimalOf(s).tag = "dec" THEN DecimalOf(s)
             ELSE IF DecimalOf(s2).tag = "dec" THEN DecimalOf(s2)
             ELSE DecNone

NaT == 0

\* pd.to_datetime(..., errors="coerce") followed by .date(), on the ISO
\* texts YYYY-MM-DD: the calendar date as the number YYYYMMDD, NaT for a
\* text that is no date
ParseDate(x) ==
    LET s == Str(x)
        shape == /\ Len(s) = 10
                 /\ s[5] = "-" /\ s[8] = "-"
                 /\ \A i \in {1, 2, 3, 4, 6, 7, 9, 10} : IsDigit(s[i])
        y == DigitsVal(SubSeq(s, 1, 4))
        m == DigitsVal(SubSeq(s, 6, 7))
        d == DigitsVal(SubSeq(s, 9, 10))
    IN  IF shape /\ m \in 1..12 /\ d \in 1..31 /\ y >= 1
        THEN y * 10000 + m * 100 + d
        ELSE NaT

---------------------------------------------------------------------------
(* Statement locator and tabular extractor *)

\* SWEDISH_HEADERS
BokfDatum == <<"B", "o", "k", "f", ".", " ", "d", "a", "t", "u", "m">>
Beskrivning == <<"B", "e", "s", "k", "r", "i", "v", "n", "i", "n", "g">>
Belopp == <<"B", "e", "l", "o", "p", "p">>
Saldo == <<"S", "a", "l", "d", "o">>
SWEDISH_HEADERS == <<BokfDatum, Beskrivning, Belopp, Saldo>>

\* a file that pd.read_excel cannot read (no workbook, no sheet "Kontoutdrag")
Unreadable == [readable |-> FALSE, grid |-> <<>>]

Workbook(grid) == [readable |-> TRUE, grid |-> grid]

\* row.get(j, ""): the cell in column j (from 1), "" past the last column
RowGet(row, j) == IF j <= Len(row) THEN row[j] ELSE <<>>

\* the row test of _find_header_row
IsHeaderRow(row) ==
    /\ Strip(Str(row[1])) = BokfDatum
    /\ [j \in 1..4 |-> Strip(Str(RowGet(row, j)))] = SWEDISH_HEADERS

\* _find_header_row: the position (from 1) of the first header row, 0 for
\* None
RECURSIVE FindHeaderFrom(_, _)
FindHeaderFrom(raw, i) ==
    IF i > Len(raw) THEN 0
    ELSE IF IsHeaderRow(raw[i]) THEN i
    ELSE FindHeaderFrom(raw, i + 1)

\* variant: the last header row instead of the first
FindLastHeaderRow(raw) ==
    LET hits == {i \in 1..Len(raw) : IsHeaderRow(raw[i])}
    IN  IF hits = {} THEN 0 ELSE CHOOSE i \in hits : \A j \in hits : j <= i

_find_header_row(raw) == FindHeaderFrom(raw, 1)

\* one row of the frame: date parsed, amount converted, the balance cell
\* kept as read
FrameRow(row) ==
    [date    |-> ParseDate(row[1]),
     desc    |-> row[2],
     amount  |-> to_decimal(row[3]),
     balance |-> row[4]]

\* _data_frame: the rows below the header whose date cell is present and
\* not blank, then those whose date parses; raises without a header and
\* when an amount of a row with a date cell fails to convert
_data_frame(f) ==
    LET hdr   == IF f.readable THEN _find_header_row(f.grid) ELSE 0
        below == SubSeq(f.grid, hdr + 1, Len(f.grid))
        dated == SelectSeq(below,
                   LAMBDA row : ~IsNa(row[1]) /\ Strip(Str(row[1])) # <<>>)
        conv  == [i \in 1..Len(dated) |-> FrameRow(dated[i])]
        bad   == \E i \in 1..Len(conv) : conv[i].amount.tag = "raised"
    IN  IF ~f.readable \/ hdr = 0 \/ bad
        THEN [raised |-> TRUE, rows |-> <<>>]
        ELSE [raised |-> FALSE,
              rows   |-> SelectSeq(conv, LAMBDA r : r.date # NaT)]

---------------------------------------------------------------------------
(* Python dict, as a sequence of <<key, value>> pairs *)

DictHas(d, k) == \E i \in 1..Len(d) : d[i][1] = k

\* d.get(k): None when k is no key
DictGet(d, k) ==
    IF DictHas(d, k) THEN d[CHOOSE i \in 1..Len(d) : d[i][1] = k][2] ELSE NoneStr

\* d[k] = v: a present key keeps its place, a new key goes last
DictSet(d, k, v) ==
    IF DictHas(d, k)
    THEN [i \in 1..Len(d) |-> IF d[i][1] = k THEN <<k, v>> ELSE d[i]]
    ELSE Append(d, <<k, v>>)

\* {**a, **b}
RECURSIVE DictMerge(_, _)
DictMerge(a, b) ==
    IF b = <<>> THEN a ELSE DictMerge(DictSet(a, b[1][1], b[1][2]), Tail(b))

\* None where an Optional[Dict[str, str]] / Optional[List[str]] is expected
NoneDict == << << <<"<None>">>, NoneStr >> >>
NoneList == << <<"<None>">> >>

\* bool(x) of a str or None
Truthy(x) == x # NoneStr /\ x # ""

\* x or {} / x or []
DictOrEmpty(d) == IF d = NoneDict THEN <<>> ELSE d
ListOrEmpty(l) == IF l = NoneList THEN <<>> ELSE l

---------------------------------------------------------------------------
(* Config loading *)

Daily == <<"d", "a", "i", "l", "y">>
FileEnd == <<"f", "i", "l", "e", "_", "e", "n", "d">>

Overforing1 == <<"o^", "v", "e", "r", "f", "o^", "r", "i", "n", "g">>
Overforing2 == <<"o^", "v", "e", "r", "f", "o", "r", "i", "n", "g">>
Overforing3 == <<"o", "v", "e", "r", "f", "o", "r", "i", "n", "g">>

\* the built-in transfer keywords
DefaultKeywords == <<Overforing1, Overforing2, Overforing3>>

\* SkandiaXlsx(...) as constructed: the dataclass defaults of the runtime
\* fields
NewImporter(account_name, currency, skip_zero, positive, infer_payee) ==
    [account_name                  |-> account_name,
     currency                      |-> currency,
     infer_payee_from_description  |-> infer_payee,
     skip_zero_amounts             |-> skip_zero,
     positive_is_increase          |-> positive,
     _config_loaded                |-> FALSE,
     _account_map                  |-> NoneDict,
     _balances_enabled             |-> FALSE,
     _balances_granularity         |-> Daily,
     _rules_enabled                |-> FALSE,
     _rules_default_counter        |-> NoneStr,
     _rules_map                    |-> NoneDict,
     _transfers_enabled            |-> TRUE,
     _transfers_classify_account   |-> "Expenses:Transfers:Internal",
     _transfers_parse_dest_in_desc |-> TRUE,
     _transfers_keywords           |-> NoneList]

\* What config_path points at, as _load_toml reads it.  kind: "none" (no
\* path, or no such file), "unreadable" (_load_toml returns None) or
\* "data" (the dict _load_toml returns).  The dict lists the keys it holds
\* (has) and, per table, the keys the table holds; an absent key's value
\* is not read.  Values have the types the TOML schema gives them.
NoConfig == [kind |-> "none"]
UnreadableConfig == [kind |-> "unreadable"]

\* the accounts table under digits-only keys, in configuration order
RECURSIVE NormalizedAccounts(_, _)
NormalizedAccounts(accounts, acc) ==
    IF accounts = <<>> THEN acc
    ELSE NormalizedAccounts(Tail(accounts),
             DictSet(acc, Filter(accounts[1][1], Digits), accounts[1][2]))

\* {str(k).lower(): str(v) for k, v in rmap.items()}
RECURSIVE LoweredMap(_, _)
LoweredMap(rmap, acc) ==
    IF rmap = <<>> THEN acc
    ELSE LoweredMap(Tail(rmap), DictSet(acc, Lower(rmap[1][1]), rmap[1][2]))

LoadAccounts(s, d) ==
    LET accounts == IF "accounts" \in d.has THEN d.accounts ELSE <<>>
    IN  [s EXCEPT !._account_map =
             DictMerge(accounts, NormalizedAccounts(accounts, <<>>))]

LoadBalances(s, d) ==
    LET has  == IF "balances" \in d.has THEN d.balances.has ELSE {}
        gran == IF "granularity" \in has THEN Lower(d.balances.granularity) ELSE Daily
    IN  [s EXCEPT
           !._balances_enabled = "enabled" \in has /\ d.balances.enabled,
           !._balances_granularity = IF gran \in {Daily, FileEnd} THEN gran ELSE @]

LoadRules(s, d) ==
    LET has == IF "rules" \in d.has THEN d.rules.has ELSE {}
    IN  [s EXCEPT
           !._rules_enabled = "enabled" \in has /\ d.rules.enabled,
           !._rules_default_counter =
               IF "default_counter" \in has THEN d.rules.default_counter ELSE NoneStr,
           !._rules_map =
               IF "map" \in has THEN LoweredMap(d.rules.map, <<>>) ELSE <<>>]

LoadTransfers(s, d) ==
    LET has == IF "transfers" \in d.has THEN d.transfers.has ELSE {}
        ca  == IF "classify_account" \in has THEN d.transfers.classify_account ELSE NoneStr
        kws == IF "keywords" \in has THEN d.transfers.keywords ELSE DefaultKeywords
    IN  [s EXCEPT
           !._transfers_enabled = "enabled" \in has => d.transfers.enabled,
           !._transfers_classify_account = IF Truthy(ca) THEN ca ELSE @,
           !._transfers_parse_dest_in_desc =
               "parse_destination_in_description" \in has => d.transfers.parse_destination,
           !._transfers_keywords = [i \in 1..Len(kws) |-> Lower(kws[i])]]

\* variant: the configuration is read again on every call
EnsureReloads(s, c) ==
    IF c.kind = "none"
    THEN [s EXCEPT !._rules_map = <<>>,
                   !._transfers_keywords = DefaultKeywords,
                   !._config_loaded = TRUE]
    ELSE IF c.kind = "unreadable" \/ c.has = {}
    THEN [s EXCEPT !._config_loaded = TRUE]
    ELSE LET s1 == [s EXCEPT
                      !.account_name =
                          IF "default_account" \in c.has THEN c.default_account ELSE @,
                      !.currency =
                          IF "currency" \in c.has THEN c.currency ELSE @]
             s2 == LoadTransfers(LoadRules(LoadBalances(LoadAccounts(s1, c), c), c), c)
         IN  [s2 EXCEPT !._config_loaded = TRUE]

\* _ensure_config_loaded: the instance after the call
_ensure_config_loaded(s, c) ==
    IF s._config_loaded THEN s
    ELSE IF c.kind = "none"
    THEN [s EXCEPT !._rules_map = <<>>,
                   !._transfers_keywords = DefaultKeywords,
                   !._config_loaded = TRUE]
    ELSE LET d == c
         IN  IF d.kind = "unreadable" \/ d.has = {}
             THEN [s EXCEPT !._config_loaded = TRUE]
             ELSE LET s1 == [s EXCEPT
                               !.account_name =
                                   IF "default_account" \in d.has THEN d.default_account ELSE @,
                               !.currency =
                                   IF "currency" \in d.has THEN d.currency ELSE @]
                      s2 == LoadTransfers(LoadRules(LoadBalances(LoadAccounts(s1, d), d), d), d)
                  IN  [s2 EXCEPT !._config_loaded = TRUE]

---------------------------------------------------------------------------
(* Account resolver *)

Kontonummer == <<"k", "o", "n", "t", "o", "n", "u", "m", "m", "e", "r">>

NoneText == <<"<None>">>

\* the side of the top-left window _extract_kontonummer scans
WindowSize == 8

Min(a, b) == IF a < b THEN a ELSE b

\* _normalize_kontonummer
_normalize_kontonummer(t) == Filter(t, Digits)

\* the window's cells <<r, c>> in scan order (row by row)
WindowCells(raw) ==
    LET nr == Min(WindowSize, Len(raw))
        nc == IF raw = <<>> THEN 0 ELSE Min(WindowSize, Len(raw[1]))
    IN  [k \in 1..(nr * nc) |-> <<((k - 1) \div nc) + 1, ((k - 1) % nc) + 1>>]

\* first pass: a cell "Kontonummer" with a present, non-blank cell to its
\* right
TwoCellHit(raw, rc) ==
    LET r == rc[1]
        c == rc[2]
    IN  /\ Strip(Lower(Str(raw[r][c]))) = Kontonummer
        /\ c + 1 <= Len(raw[r])
        /\ ~IsNa(raw[r][c + 1])
        /\ Strip(Str(raw[r][c + 1])) # <<>>

\* second pass: a cell that contains "kontonummer" and has two tokens or
\* more
OneCellHit(raw, rc) ==
    LET val == Str(raw[rc[1]][rc[2]])
    IN  /\ Contains(Lower(Strip(val)), Kontonummer)
        /\ Len(Split(val, <<>>)) >= 2

\* the first cell of cells, from the k-th on, that the first pass hits; 0
\* when none does
RECURSIVE FirstTwoCellHit(_, _, _)
FirstTwoCellHit(raw, cells, k) ==
    IF k > Len(cells) THEN 0
    ELSE IF TwoCellHit(raw, cells[k]) THEN k
    ELSE FirstTwoCellHit(raw, cells, k + 1)

\* the same for the second pass
RECURSIVE FirstOneCellHit(_, _, _)
FirstOneCellHit(raw, cells, k) ==
    IF k > Len(cells) THEN 0
    ELSE IF OneCellHit(raw, cells[k]) THEN k
    ELSE FirstOneCellHit(raw, cells, k + 1)

\* _extract_kontonummer: NoneText for None
_extract_kontonummer(raw) ==
    LET cells == WindowCells(raw)
        two   == FirstTwoCellHit(raw, cells, 1)
        one   == FirstOneCellHit(raw, cells, 1)
    IN  IF two # 0
        THEN Strip(Str(raw[cells[two][1]][cells[two][2] + 1]))
        ELSE IF one # 0
        THEN LET parts == Split(Str(raw[cells[one][1]][cells[one][2]]), <<>>)
             IN  Strip(parts[Len(parts)])
        ELSE NoneText

\* variant: the digits-only form is not tried
LookupKontoRaw(amap, konto) ==
    LET compact == Remove(konto, " ")
    IN  IF DictHas(amap, konto) THEN DictGet(amap, konto)
        ELSE IF DictHas(amap, compact) THEN DictGet(amap, compact)
        ELSE NoneStr

\* the three lookups of _account_from_kontonummer, in order
LookupKonto(amap, konto) ==
    LET normalized == _normalize_kontonummer(konto)
        compact    == Remove(konto, " ")
    IN  IF DictHas(amap, konto) THEN DictGet(amap, konto)
        ELSE IF DictHas(amap, normalized) THEN DictGet(amap, normalized)
        ELSE IF DictHas(amap, compact) THEN DictGet(amap, compact)
        ELSE NoneStr

\* _account_from_kontonummer: NoneStr for None (also when reading raises)
_account_from_kontonummer(s, f) ==
    IF DictOrEmpty(s._account_map) = <<>> \/ ~f.readable THEN NoneStr
    ELSE LET konto == _extract_kontonummer(f.grid)
         IN  IF konto = NoneText \/ konto = <<>> THEN NoneStr
             ELSE LookupKonto(s._account_map, konto)

\* mapped or self.account_name
AccountForFile(s, f) ==
    LET mapped == _account_from_kontonummer(s, f)
    IN  IF Truthy(mapped) THEN mapped ELSE s.account_name

---------------------------------------------------------------------------
(* Classification engine *)

\* the window lengths _resolve_transfer_counter slides over the digits
MaxWindow == 12
MinWindow == 8

\* bool(desc) of a description cell: a missing cell (NaN) is true, "" false
DescTruthy(desc) == desc # <<>>

\* desc.lower() raises AttributeError on a missing cell (a float)
LowerRaises(desc) == IsNa(desc)

\* _looks_like_transfer: "yes", "no" or "raised"
_looks_like_transfer(s, desc) ==
    IF ~s._transfers_enabled \/ ~DescTruthy(desc) THEN "no"
    ELSE IF LowerRaises(desc) THEN "raised"
    ELSE LET kws == ListOrEmpty(s._transfers_keywords)
         IN  IF \E i \in 1..Len(kws) : Contains(Lower(desc), kws[i])
             THEN "yes" ELSE "no"

\* the candidates of the sliding windows, in the order they are tried:
\* lengths MaxWindow down to MinWindow, leftmost first
RECURSIVE WindowCandidates(_, _, _)
WindowCandidates(digits, L, i) ==
    IF L < MinWindow THEN <<>>
    ELSE IF i + L - 1 > Len(digits) THEN WindowCandidates(digits, L - 1, 1)
    ELSE <<SubSeq(digits, i, i + L - 1)>> \o WindowCandidates(digits, L, i + 1)

\* the first candidate the map gives a non-empty account, else fallback
RECURSIVE FirstMapped(_, _, _)
FirstMapped(amap, cands, fallback) ==
    IF cands = <<>> THEN fallback
    ELSE IF Truthy(DictGet(amap, Head(cands))) THEN DictGet(amap, Head(cands))
    ELSE FirstMapped(amap, Tail(cands), fallback)

\* variant: the windows are tried before the whole digit string, the
\* shortest first
ResolveShortestFirst(s, desc) ==
    LET amap   == DictOrEmpty(s._account_map)
        digits == Filter(desc, Digits)
        wins   == WindowCandidates(digits, MaxWindow, 1)
    IN  IF ~DescTruthy(desc) THEN s._transfers_classify_account
        ELSE IF s._transfers_parse_dest_in_desc /\ amap # <<>> /\ Len(digits) >= MinWindow
        THEN FirstMapped(amap,
                 [i \in 1..Len(wins) |-> wins[Len(wins) + 1 - i]] \o <<digits>>,
                 s._transfers_classify_account)
        ELSE s._transfers_classify_account

\* _resolve_transfer_counter (called with a description that is a text)
_resolve_transfer_counter(s, desc) ==
    LET amap   == DictOrEmpty(s._account_map)
        digits == Filter(desc, Digits)
    IN  IF ~DescTruthy(desc) THEN s._transfers_classify_account
        ELSE IF s._transfers_parse_dest_in_desc /\ amap # <<>> /\ Len(digits) >= MinWindow
        THEN FirstMapped(amap,
                 <<digits>> \o WindowCandidates(digits, MaxWindow, 1),
                 s._transfers_classify_account)
        ELSE s._transfers_classify_account

\* variant: the last rule, in map order, whose key is in text
RECURSIVE LastRule(_, _, _)
LastRule(rmap, text, fallback) ==
    IF rmap = <<>> THEN fallback
    ELSE IF Contains(text, rmap[Len(rmap)][1]) THEN rmap[Len(rmap)][2]
    ELSE LastRule(SubSeq(rmap, 1, Len(rmap) - 1), text, fallback)

\* the account of the first rule, in map order, whose key is in text
RECURSIVE FirstRule(_, _, _)
FirstRule(rmap, text, fallback) ==
    IF rmap = <<>> THEN fallback
    ELSE IF Contains(text, rmap[1][1]) THEN rmap[1][2]
    ELSE FirstRule(Tail(rmap), text, fallback)

\* _guess_counter_account: an account, NoneStr for None, or "<raised>"
Raised == "<raised>"

\* variant: no fallback to the default counter
GuessWithoutDefault(s, desc) ==
    LET rmap == DictOrEmpty(s._rules_map)
    IN  IF ~s._rules_enabled \/ rmap = <<>> THEN NoneStr
        ELSE IF DescTruthy(desc) /\ LowerRaises(desc) THEN Raised
        ELSE FirstRule(rmap, Lower(desc), NoneStr)

_guess_counter_account(s, desc) ==
    LET rmap == DictOrEmpty(s._rules_map)
    IN  IF ~s._rules_enabled \/ rmap = <<>> THEN NoneStr
        ELSE IF DescTruthy(desc) /\ LowerRaises(desc) THEN Raised
        ELSE FirstRule(rmap, Lower(desc), s._rules_default_counter)

---------------------------------------------------------------------------
(* Entry builder *)

Posting(account, number, currency) ==
    [account |-> account, number |-> number, currency |-> currency]

\* stands for "the classification of this row raised"
RaisedPosting == Posting(Raised, DecRaised, Raised)

\* variant: the keyword rules are consulted before the transfer test
CounterPostingsRulesFirst(s, desc, number) ==
    LET t == _looks_like_transfer(s, desc)
        g == _guess_counter_account(s, desc)
    IN  IF g = Raised \/ t = "raised" THEN <<RaisedPosting>>
        ELSE IF Truthy(g) THEN <<Posting(g, DecNeg(number), s.currency)>>
        ELSE IF t = "yes"
        THEN <<Posting(_resolve_transfer_counter(s, desc), DecNeg(number), s.currency)>>
        ELSE <<>>

\* variant: the counter posting repeats the amount instead of negating it
CounterPostingsSameSign(s, desc, number) ==
    LET t == _looks_like_transfer(s, desc)
        g == _guess_counter_account(s, desc)
    IN  IF t = "raised" THEN <<RaisedPosting>>
        ELSE IF t = "yes"
        THEN <<Posting(_resolve_transfer_counter(s, desc), number, s.currency)>>
        ELSE IF g = Raised THEN <<RaisedPosting>>
        ELSE IF Truthy(g) THEN <<Posting(g, number, s.currency)>>
        ELSE <<>>

\* the counter-posting of extract's two branches: <<>> when there is none,
\* <<RaisedPosting>> when the classification raised
CounterPostings(s, desc, number) ==
    LET t == _looks_like_transfer(s, desc)
        g == _guess_counter_account(s, desc)
    IN  IF t = "raised" THEN <<RaisedPosting>>
        ELSE IF t = "yes"
        THEN <<Posting(_resolve_transfer_counter(s, desc), DecNeg(number), s.currency)>>
        ELSE IF g = Raised THEN <<RaisedPosting>>
        ELSE IF Truthy(g) THEN <<Posting(g, DecNeg(number), s.currency)>>
        ELSE <<>>

\* D(str(amt if self.positive_is_increase else amt))
PostingNumber(s, amt) == IF s.positive_is_increase THEN amt ELSE amt

Transaction(date, payee, narration, postings) ==
    [kind |-> "Transaction", date |-> date, payee |-> payee,
     narration |-> narration, postings |-> postings,
     account |-> NoneStr, amount |-> DecNone, currency |-> NoneStr]

Balance(date, account, amount, currency) ==
    [kind |-> "Balance", date |-> date, payee |-> NoneText,
     narration |-> NoneText, postings |-> <<>>,
     account |-> account, amount |-> amount, currency |-> currency]

\* variant: the primary posting always goes to account_name
RowEntriesDefaultAccount(s, acct, row) ==
    IF s.skip_zero_amounts /\ DecIsZero(row.amount) THEN <<>>
    ELSE LET number  == PostingNumber(s, row.amount)
             counter == CounterPostings(s, row.desc, number)
         IN  <<Transaction(
                 row.date,
                 IF s.infer_payee_from_description THEN row.desc ELSE NoneText,
                 IF s.infer_payee_from_description THEN <<>> ELSE row.desc,
                 IF counter = <<RaisedPosting>> THEN counter
                 ELSE <<Posting(s.account_name, number, s.currency)>> \o counter)>>

\* variant: zero amounts are never skipped
RowEntriesNoSkip(s, acct, row) ==
    LET number  == PostingNumber(s, row.amount)
        counter == CounterPostings(s, row.desc, number)
    IN  <<Transaction(
            row.date,
            IF s.infer_payee_from_description THEN row.desc ELSE NoneText,
            IF s.infer_payee_from_description THEN <<>> ELSE row.desc,
            IF counter = <<RaisedPosting>> THEN counter
            ELSE <<Posting(acct, number, s.currency)>> \o counter)>>

\* the body of extract's loop for one row: <<>> for a skipped row, else
\* the Transaction (postings <<RaisedPosting>> when the classification
\* raised)
RowEntries(s, acct, row) ==
    IF s.skip_zero_amounts /\ DecIsZero(row.amount) THEN <<>>
    ELSE LET number  == PostingNumber(s, row.amount)
             counter == CounterPostings(s, row.desc, number)
         IN  <<Transaction(
                 row.date,
                 IF s.infer_payee_from_description THEN row.desc ELSE NoneText,
                 IF s.infer_payee_from_description THEN <<>> ELSE row.desc,
                 IF counter = <<RaisedPosting>> THEN counter
                 ELSE <<Posting(acct, number, s.currency)>> \o counter)>>

RECURSIVE Transactions(_, _, _)
Transactions(s, acct, rows) ==
    IF rows = <<>> THEN <<>>
    ELSE RowEntries(s, acct, Head(rows)) \o Transactions(s, acct, Tail(rows))

\* parse_balance mapped over the frame: the rows that carry a balance,
\* each with its place in the frame (dropna(subset=["balval"]))
WithBalance(rows) ==
    SelectSeq([i \in 1..Len(rows) |->
                  [pos |-> i, date |-> rows[i].date,
                   balval |-> parse_balance(rows[i].balance)]],
              LAMBDA r : r.balval.tag = "dec")

\* variant: the first row instead of the last
Head1(q) == IF q = <<>> THEN <<>> ELSE <<q[1]>>

\* variant: the last row of every run of consecutive rows of one date
RunTail1(q) ==
    SelectSeq(q, LAMBDA r : \A j \in 1..Len(q) :
                                q[j].pos = r.pos + 1 => q[j].date # r.date)

\* .tail(1)
Tail1(q) == IF q = <<>> THEN <<>> ELSE <<q[Len(q)]>>

\* .groupby(date).tail(1): the last row of every date, in frame order
GroupTail1(q) ==
    SelectSeq(q, LAMBDA r : \A j \in 1..Len(q) :
                                q[j].date = r.date => q[j].pos <= r.pos)

\* _append_balance_assertions: the Balance entries appended
_append_balance_assertions(s, rows, acct) ==
    LET with_bal  == WithBalance(rows)
        iter_rows == IF s._balances_granularity = FileEnd
                     THEN Tail1(with_bal) ELSE GroupTail1(with_bal)
    IN  [i \in 1..Len(iter_rows) |->
            Balance(iter_rows[i].date, acct, iter_rows[i].balval, s.currency)]

---------------------------------------------------------------------------
(* Operations *)

NoRet ==
    [op |-> "none", raised |-> FALSE, bool |-> FALSE, account |-> NoneStr,
     entries |-> <<>>]

\* identify(file): every exception is swallowed into False
Identify ==
    /\ self' = _ensure_config_loaded(self, cfg)
    /\ ret' = [NoRet EXCEPT !.op = "identify",
                 !.bool = file.readable /\ _find_header_row(file.grid) # 0]
    /\ UNCHANGED <<cfg, file>>

\* account(file)
Account ==
    /\ self' = _ensure_config_loaded(self, cfg)
    /\ ret' = [NoRet EXCEPT !.op = "account",
                 !.account = AccountForFile(self', file)]
    /\ UNCHANGED <<cfg, file>>

\* file_account(file)
FileAccount ==
    /\ self' = _ensure_config_loaded(self, cfg)
    /\ ret' = [NoRet EXCEPT !.op = "file_account",
                 !.account = AccountForFile(self', file)]
    /\ UNCHANGED <<cfg, file>>

\* variant: balances asserted from the rows that produced a Transaction
ExtractResultKeptRows(s, f) ==
    LET df   == _data_frame(f)
        acct == AccountForFile(s, f)
        kept == SelectSeq(df.rows,
                          LAMBDA r : ~(s.skip_zero_amounts /\ DecIsZero(r.amount)))
        txns == Transactions(s, acct, df.rows)
        bals == IF s._balances_enabled
                THEN _append_balance_assertions(s, kept, acct) ELSE <<>>
    IN  IF df.raised \/ \E i \in 1..Len(txns) : txns[i].postings = <<RaisedPosting>>
        THEN [NoRet EXCEPT !.op = "extract", !.raised = TRUE]
        ELSE [NoRet EXCEPT !.op = "extract", !.entries = txns \o bals]

\* what extract(file) returns on instance s, or that it raised
ExtractResult(s, f) ==
    LET df   == _data_frame(f)
        acct == AccountForFile(s, f)
        txns == Transactions(s, acct, df.rows)
        bals == IF s._balances_enabled
                THEN _append_balance_assertions(s, df.rows, acct) ELSE <<>>
    IN  IF df.raised \/ \E i \in 1..Len(txns) : txns[i].postings = <<RaisedPosting>>
        THEN [NoRet EXCEPT !.op = "extract", !.raised = TRUE]
        ELSE [NoRet EXCEPT !.op = "extract", !.entries = txns \o bals]

\* extract(file)
Extract ==
    /\ self' = _ensure_config_loaded(self, cfg)
    /\ ret' = ExtractResult(self', file)
    /\ UNCHANGED <<cfg, file>>

Next == Identify \/ Account \/ FileAccount \/ Extract

---------------------------------------------------------------------------
(* Statements and configurations the operations are checked on *)

\* the most data rows of a statement
MaxRows == 2

SeqsUpTo(S, n) == UNION {[1..k -> S] : k \in 1..n}

TxtKontonummer == <<"K", "o", "n", "t", "o", "n", "u", "m", "m", "e", "r">>
TxtOwnNumber == <<"1", "2", "3", "4", "-", "5", "6", "7", ".", "8", "9", "0", "-", "1">>
TxtPeriod == <<"P", "e", "r", "i", "o", "d">>
TxtDay1 == <<"2", "0", "2", "5", "-", "0", "8", "-", "2", "5">>
TxtDay2 == <<"2", "0", "2", "5", "-", "0", "8", "-", "2", "6">>
TxtBal1000 == <<"1", " ", "0", "0", "0", ",", "0", "0">>

DescBoth == <<"O^", "v", "e", "r", "f", "o", "r", "i", "n", "g", " ", "G", "Y", "M", " ", "1", "2", "3", "4", "5", "6", "7", "8">>
DescRule == <<"M", "a", "l", "k", "a", "r", "s", " ", "G", "y", "m">>
DescNone == <<"K", "i", "o", "s", "k">>

AmtOut == <<"-", "1", "0", "0">>
AmtZero == <<"0", ",", "0", "0">>

KontoRow == <<TxtKontonummer, TxtOwnNumber, NaN, NaN>>
PeriodRow == <<TxtPeriod, NaN, NaN, NaN>>
HeaderRow == SWEDISH_HEADERS

\* a statement as the bank exports it: account number, period, header,
\* data rows
Statement(rows) == Workbook(<<KontoRow, PeriodRow, HeaderRow>> \o rows)

\* descriptions x amounts, a row without description and one without
\* amount
ClassifyRows ==
    {<<TxtDay1, d, a, TxtBal1000>> :
        d \in {DescBoth, DescRule, DescNone}, a \in {AmtOut, AmtZero}}
    \cup {<<TxtDay1, NaN, AmtOut, TxtBal1000>>, <<TxtDay2, DescNone, NaN, NaN>>}

ClassifyFiles == {Statement(rows) : rows \in SeqsUpTo(ClassifyRows, MaxRows)}

KeyGym == <<"G", "Y", "M">>
KeySavings == <<"1", "2", "3", "4", "-", "5", "6", "7", "8">>
KwOverforing == <<"O^", "V", "E", "R", "F", "O", "R", "I", "N", "G">>

BalancesOff == [has |-> {}]
RulesTable(enabled, dc, map) ==
    [has |-> {"enabled", "map"} \cup (IF dc = NoneStr THEN {} ELSE {"default_counter"}),
     enabled |-> enabled, default_counter |-> dc, map |-> map]
TransfersTable(enabled, parse, kws) ==
    [has |-> {"enabled", "parse_destination_in_description"}
               \cup (IF kws = <<>> THEN {} ELSE {"keywords"}),
     enabled |-> enabled, parse_destination |-> parse, keywords |-> kws,
     classify_account |-> NoneStr]

ConfigData(accounts, balances, rules, transfers) ==
    [kind |-> "data",
     has |-> {"default_account", "currency", "accounts", "balances", "rules", "transfers"},
     default_account |-> "Assets:SE:Skandia:Test",
     currency |-> "SEK",
     accounts |-> accounts,
     balances |-> balances,
     rules |-> rules,
     transfers |-> transfers]

KeyOwn == <<"1", "2", "3", "4", "5", "6", "7", "8", "9", "0", "1">>
SavingsAccounts == << <<KeySavings, "Assets:SE:Skandia:Savings">> >>
OwnAccounts ==
    << <<KeyOwn, "Assets:SE:Skandia:Checking">>,
       <<KeySavings, "Assets:SE:Skandia:Savings">> >>
GymMap == << <<KeyGym, "Expenses:Health:Gym">> >>

ClassifyConfig(re, dc, map, te, parse, kws) ==
    ConfigData(IF kws = <<>> THEN OwnAccounts ELSE SavingsAccounts,
               BalancesOff, RulesTable(re, dc, map),
               TransfersTable(te, parse, kws))

ClassifyConfigs ==
    {NoConfig, UnreadableConfig,
     ClassifyConfig(TRUE, "Equity:Unknown", GymMap, TRUE, TRUE, <<>>),
     ClassifyConfig(TRUE, "Equity:Unknown", GymMap, TRUE, FALSE, <<KwOverforing>>),
     ClassifyConfig(TRUE, "Equity:Unknown", GymMap, FALSE, TRUE, <<>>),
     ClassifyConfig(TRUE, NoneStr, GymMap, TRUE, TRUE, <<>>),
     ClassifyConfig(TRUE, "", GymMap, FALSE, TRUE, <<>>),
     ClassifyConfig(TRUE, "Equity:Unknown", <<>>, TRUE, TRUE, <<>>),
     ClassifyConfig(TRUE, "Equity:Unknown", <<>>, FALSE, TRUE, <<>>),
     ClassifyConfig(FALSE, "Equity:Unknown", GymMap, TRUE, TRUE, <<KwOverforing>>),
     ClassifyConfig(FALSE, "Equity:Unknown", GymMap, FALSE, TRUE, <<>>)}

\* the most data rows of a statement whose balances are asserted
MaxBalRows == 3

TxtBal1200 == <<"1", "2", "0", "0">>
GranUpper == <<"F", "I", "L", "E", "_", "E", "N", "D">>

BalanceRows ==
    {<<d, DescNone, AmtOut, b>> :
        d \in {TxtDay1, TxtDay2}, b \in {TxtBal1000, TxtBal1200, NaN}}

BalanceFiles == {Statement(rows) : rows \in SeqsUpTo(BalanceRows, MaxBalRows)}

BalancesTable(enabled, gran) ==
    [has |-> {"enabled", "granularity"}, enabled |-> enabled, granularity |-> gran]
RulesOff == [has |-> {}]
TransfersDefault == [has |-> {}]

BalanceConfigs ==
    {ConfigData(OwnAccounts, BalancesTable(en, gran), RulesOff, TransfersDefault) :
        <<en, gran>> \in {<<TRUE, Daily>>, <<TRUE, FileEnd>>,
                          <<TRUE, GranUpper>>, <<FALSE, FileEnd>>}}

Init ==
    /\ \E sz \in BOOLEAN :
         self = NewImporter("Assets:SE:Skandia:Default", "SEK", sz, FALSE, TRUE)
    /\ cfg \in ClassifyConfigs
    /\ file \in ClassifyFiles
    /\ ret = NoRet

Spec == Init /\ [][Next]_vars

\* the longest cell text whose conversion is checked
MaxLen == 3

NormChars == {"0", "1", ",", ".", "-", " ", "x"}

NormTexts == {<<>>} \cup SeqsUpTo(NormChars, MaxLen)

\* one data row, the text in the amount cell or in the balance cell
NormFiles ==
    {Statement(<< <<TxtDay1, DescNone, t, TxtBal1000>> >>) : t \in NormTexts \cup {NaN}}
    \cup {Statement(<< <<TxtDay1, DescNone, AmtOut, t>> >>) : t \in NormTexts \cup {NaN}}

NormConfigs ==
    {ConfigData(OwnAccounts, BalancesTable(TRUE, gran), RulesOff, TransfersDefault) :
        gran \in {Daily, FileEnd}}

\* the most rows of a grid whose header is searched
MaxGridRows == 3

HeaderPadded ==
    <<<<" ">> \o BokfDatum, Beskrivning \o <<" ", " ">>,
      <<"nbsp">> \o Belopp \o <<" ">>, Saldo>>
HeaderLower == <<Lower(BokfDatum), Lower(Beskrivning), Lower(Belopp), Lower(Saldo)>>
HeaderNoSaldo == <<BokfDatum, Beskrivning, Belopp, NaN>>
HeaderSwapped == <<BokfDatum, Belopp, Beskrivning, Saldo>>
DataRow == <<TxtDay1, DescNone, AmtOut, TxtBal1000>>

GridRows ==
    {HeaderRow, HeaderPadded, HeaderLower, HeaderNoSaldo, HeaderSwapped,
     DataRow, KontoRow}

\* grids of four columns, a grid of three and one of five, no grid at all
IdentifyFiles ==
    {Workbook(g) : g \in SeqsUpTo(GridRows, MaxGridRows)}
    \cup {Unreadable, Workbook(<<>>),
          Workbook(<< <<TxtKontonummer, TxtOwnNumber, NaN>>,
                      <<BokfDatum, Beskrivning, Belopp>> >>),
          Workbook(<< <<BokfDatum, Beskrivning, Belopp, Saldo, NaN>>,
                      <<TxtDay1, DescNone, AmtOut, TxtBal1000, NaN>> >>)}

IdentifyConfigs ==
    {NoConfig, UnreadableConfig,
     ConfigData(OwnAccounts, BalancesTable(TRUE, FileEnd), RulesOff, TransfersDefault)}

\* the digits of the account numbers whose written forms are resolved
KontoLen == 3

DigitChar(i) ==
    CASE i = 1 -> "1" [] i = 2 -> "2" [] i = 3 -> "3" [] i = 4 -> "4"
      [] i = 5 -> "5" [] i = 6 -> "6" [] i = 7 -> "7" [] i = 8 -> "8"
      [] i = 9 -> "9" [] OTHER -> "0"

KontoDigits == [i \in 1..KontoLen |-> DigitChar(i)]

\* digit i followed by separator sep[i] ("" for none)
RECURSIVE Written(_, _, _)
Written(digits, sep, i) ==
    IF i > Len(digits) THEN <<>>
    ELSE <<digits[i]>>
         \o (IF i < Len(digits) /\ sep[i] # "" THEN <<sep[i]>> ELSE <<>>)
         \o Written(digits, sep, i + 1)

\* the digits written with "-", "." or " " between any two of them
KontoForms ==
    {Written(KontoDigits, sep, 1) : sep \in [1..(KontoLen - 1) -> {"", "-", ".", " "}]}

FormHyphen == Written(KontoDigits, [i \in 1..(KontoLen - 1) |-> IF i = 1 THEN "-" ELSE ""], 1)
FormSpace == Written(KontoDigits, [i \in 1..(KontoLen - 1) |-> IF i = 1 THEN " " ELSE ""], 1)
FormDots == Written(KontoDigits, [i \in 1..(KontoLen - 1) |-> "."], 1)

\* number in the cell right of "Kontonummer", or in the same cell
AccountFiles ==
    {Workbook(<< <<TxtKontonummer, <<" ">> \o f, NaN, NaN>>, HeaderRow, DataRow >>) :
        f \in KontoForms}
    \cup {Workbook(<< <<TxtKontonummer \o <<" ">> \o f, NaN, NaN, NaN>>, HeaderRow, DataRow >>) :
        f \in KontoForms}

AccountKeys == {KontoDigits, FormHyphen, FormSpace, FormDots}

AccountTables ==
    {<< <<k, "Assets:A">> >> : k \in AccountKeys}
    \cup {<< <<p[1], "Assets:A">>, <<p[2], "Assets:B">> >> :
            p \in {q \in AccountKeys \X AccountKeys : q[1] # q[2]}}

AccountConfigs ==
    {ConfigData(t, BalancesOff, RulesOff, TransfersDefault) : t \in AccountTables}

\* the most rows below the header of a statement given to the extractor
MaxFrameRows == 3

TxtSumma == <<"S", "u", "m", "m", "a">>
TxtNoDay == <<"2", "0", "2", "5", "-", "1", "3", "-", "4", "0">>
TxtDash == <<"-">>

\* rows with a date, without amount and balance, with a missing, blank or
\* unparsable date cell, and a repeated header row
ExtractorRows ==
    {DataRow,
     <<TxtDay2, DescRule, NaN, NaN>>,
     <<NaN, DescNone, AmtOut, TxtBal1000>>,
     <<<<" ", " ">>, DescNone, AmtOut, TxtBal1000>>,
     <<TxtSumma, DescNone, AmtOut, NaN>>,
     <<TxtSumma, DescNone, TxtDash, NaN>>,
     <<TxtNoDay, DescNone, AmtOut, TxtBal1000>>,
     HeaderRow}

ExtractorFiles == {Statement(rows) : rows \in SeqsUpTo(ExtractorRows, MaxFrameRows)}

\* the most data rows of a statement whose posting signs are compared
MaxSignRows == 3

AmtIn == <<"2", "0", "0">>

\* an outflow, an inflow and a zero amount
SignRows ==
    {DataRow,
     <<TxtDay2, DescRule, AmtIn, TxtBal1200>>,
     <<TxtDay1, DescNone, AmtZero, TxtBal1000>>}

SignFiles == {Statement(rows) : rows \in SeqsUpTo(SignRows, MaxSignRows)}

SignConfigs ==
    {NoConfig,
     ClassifyConfig(TRUE, "Equity:Unknown", GymMap, TRUE, TRUE, <<>>)}

\* the most digits of a transfer description
MaxDigits == 13

\* the digits 1 2 3 ... 9 0 1 2 ..., n of them
DigitRun(n) == [i \in 1..n |-> DigitChar(i % 10)]

\* "Överföring" followed by n digits, a space after every fourth
RECURSIVE Grouped(_, _)
Grouped(digits, i) ==
    IF i > Len(digits) THEN <<>>
    ELSE (IF i % 4 = 1 THEN <<" ">> ELSE <<>>) \o <<digits[i]>> \o Grouped(digits, i + 1)

TransferDesc(n) ==
    <<"O^", "v", "e", "r", "f", "o^", "r", "i", "n", "g">> \o Grouped(DigitRun(n), 1)

TransferFiles ==
    {Statement(<< <<TxtDay1, TransferDesc(n), AmtOut, TxtBal1000>> >>) :
        n \in {0} \cup (7..MaxDigits)}

\* keys that are digit substrings <<from, to>> of the longest description,
\* each mapped to an account of its own
WindowKeys == <<<<1, 13>>, <<1, 12>>, <<2, 13>>, <<2, 10>>, <<1, 8>>, <<2, 9>>>>

WindowAccount(k) ==
    CASE k = 1 -> "Assets:Full13" [] k = 2 -> "Assets:Left12" [] k = 3 -> "Assets:Right12"
      [] k = 4 -> "Assets:Mid9" [] k = 5 -> "Assets:Left8" [] OTHER -> "Assets:Right8"

\* the [accounts] table with the keys picked by pick, in the order of
\* WindowKeys
RECURSIVE WindowTable(_, _)
WindowTable(pick, k) ==
    IF k > Len(WindowKeys) THEN <<>>
    ELSE (IF k \in pick
          THEN << <<SubSeq(DigitRun(13), WindowKeys[k][1], WindowKeys[k][2]),
                    WindowAccount(k)>> >>
          ELSE <<>>) \o WindowTable(pick, k + 1)

\* every choice of keys, and tables in which the longest match maps to ""
TransferTables ==
    {WindowTable(pick, 1) : pick \in SUBSET (1..Len(WindowKeys))}
    \cup {<< <<DigitRun(13), "">>, <<DigitRun(8), "Assets:Left8">> >>,
          << <<DigitRun(12), "">> >>}

TransferConfigs ==
    {ConfigData(t, BalancesOff, RulesOff, TransfersTable(TRUE, parse, <<>>)) :
        t \in TransferTables, parse \in BOOLEAN}

TxtSavingsNumber == <<"1", "2", "3", "4", "-", "5", "6", "7", "8">>

\* two statements of different accounts, one with no dated row, and a file
\* that cannot be read
SessionFiles ==
    {Statement(<<DataRow, <<TxtDay2, DescRule, AmtIn, TxtBal1200>> >>),
     Workbook(<< <<TxtKontonummer, TxtSavingsNumber, NaN, NaN>>, PeriodRow, HeaderRow,
                 <<TxtDay2, DescBoth, AmtOut, TxtBal1200>> >>),
     Statement(<< <<TxtSumma, DescNone, AmtOut, NaN>> >>),
     Unreadable}

\* what may lie at config_path at the time of a call
SessionConfigs ==
    {NoConfig, UnreadableConfig,
     ConfigData(OwnAccounts, BalancesTable(TRUE, FileEnd),
                RulesTable(TRUE, "Equity:Unknown", GymMap), TransfersTable(FALSE, TRUE, <<>>)),
     [ConfigData(SavingsAccounts, BalancesTable(TRUE, Daily), RulesOff,
                 TransfersTable(TRUE, FALSE, <<KwOverforing>>))
        EXCEPT !.default_account = "Assets:SE:Skandia:Other", !.currency = "EUR"]}

\* a configuration file that parses to an empty table
EmptyConfig == [kind |-> "data", has |-> {}]

DefaultsConfigs == {NoConfig, UnreadableConfig, EmptyConfig}

\* the most entries of a rules map
MaxRules == 2

KeyGymLower == <<"g", "y", "m">>
KeyMalkars == <<"M", "A", "L", "K", "A", "R", "S">>
KeyRsGym == <<"R", "S", "nbsp", "G", "Y", "M">>
KeyKiosk == <<"k", "i", "o", "s", "k">>

\* substrings that overlap, contain one another, or differ in case only
RuleKeys == {KeyGym, KeyGymLower, KeyMalkars, KeyRsGym, KeyKiosk}

RuleAccount(i) ==
    CASE i = 1 -> "Expenses:Rule1" [] i = 2 -> "Expenses:Rule2"
      [] i = 3 -> "Expenses:Rule3" [] OTHER -> "Expenses:Rule4"

\* maps of distinct keys, the i-th configured entry on the i-th account
RuleMaps ==
    {[i \in 1..Len(ks) |-> <<ks[i], RuleAccount(i)>>] :
        ks \in {q \in SeqsUpTo(RuleKeys, MaxRules) :
                   \A i \in 1..Len(q) : \A j \in 1..Len(q) : i # j => q[i] # q[j]}}

DescGymNbsp == <<"M", "a", "l", "k", "a", "r", "s", "nbsp", "G", "y", "m">>
DescKioskGym == <<"K", "i", "o", "s", "k", " ", "g", "y", "m">>

RuleFiles ==
    {Statement(<< <<TxtDay1, d, AmtOut, TxtBal1000>> >>) :
        d \in {DescRule, DescGymNbsp, DescKioskGym, DescNone}}

RuleConfigs ==
    {ConfigData(OwnAccounts, BalancesOff, RulesTable(TRUE, "Equity:Unknown", map),
                TransfersTable(te, TRUE, <<>>)) :
        map \in RuleMaps, te \in BOOLEAN}

\* the most data rows of a statement some of whose rows have no amount
MaxSkipRows == 2

SkipRows ==
    {<<d, DescNone, a, b>> :
        d \in {TxtDay1, TxtDay2}, a \in {AmtOut, AmtZero, NaN},
        b \in {TxtBal1000, TxtBal1200, NaN}}

SkipFiles == {Statement(rows) : rows \in SeqsUpTo(SkipRows, MaxSkipRows)}

SkipConfigs ==
    {ConfigData(OwnAccounts, BalancesTable(TRUE, gran), RulesOff, TransfersDefault) :
        gran \in {Daily, FileEnd}}

InitBalance ==
    /\ self = NewImporter("Assets:SE:Skandia:Default", "SEK", TRUE, FALSE, TRUE)
    /\ cfg \in BalanceConfigs
    /\ file \in BalanceFiles
    /\ ret = NoRet

SpecBalance == InitBalance /\ [][Next]_vars

InitNormalise ==
    /\ self = NewImporter("Assets:SE:Skandia:Default", "SEK", TRUE, FALSE, TRUE)
    /\ cfg \in NormConfigs
    /\ file \in NormFiles
    /\ ret = NoRet

SpecNormalise == InitNormalise /\ [][Next]_vars

InitIdentify ==
    /\ self = NewImporter("Assets:SE:Skandia:Default", "SEK", TRUE, FALSE, TRUE)
    /\ cfg \in IdentifyConfigs
    /\ file \in IdentifyFiles
    /\ ret = NoRet

SpecIdentify == InitIdentify /\ [][Next]_vars

InitAccount ==
    /\ self = NewImporter("Assets:SE:Skandia:Default", "SEK", TRUE, FALSE, TRUE)
    /\ cfg \in AccountConfigs
    /\ file \in AccountFiles
    /\ ret = NoRet

SpecAccount == InitAccount /\ [][Next]_vars

InitExtractor ==
    /\ \E sz \in BOOLEAN :
         self = NewImporter("Assets:SE:Skandia:Default", "SEK", sz, FALSE, TRUE)
    /\ cfg = NoConfig
    /\ file \in ExtractorFiles
    /\ ret = NoRet

SpecExtractor == InitExtractor /\ [][Next]_vars

InitSign ==
    /\ \E sz \in BOOLEAN, pos \in BOOLEAN :
         self = NewImporter("Assets:SE:Skandia:Default", "SEK", sz, pos, TRUE)
    /\ cfg \in SignConfigs
    /\ file \in SignFiles
    /\ ret = NoRet

SpecSign == InitSign /\ [][Next]_vars

InitTransfer ==
    /\ self = NewImporter("Assets:SE:Skandia:Default", "SEK", TRUE, FALSE, TRUE)
    /\ cfg \in TransferConfigs
    /\ file \in TransferFiles
    /\ ret = NoRet

SpecTransfer == InitTransfer /\ [][Next]_vars

---------------------------------------------------------------------------
(* A session: calls on one instance, with any file, whatever lies at
   config_path at the time of the call *)

\* where " - " first occurs in t from position i on, 0 when nowhere
RECURSIVE SepAt(_, _)
SepAt(t, i) ==
    IF i + 2 > Len(t) THEN 0
    ELSE IF SubSeq(t, i, i + 2) = <<" ", "-", " ">> THEN i
    ELSE SepAt(t, i + 1)

\* df["date"].max() of a frame, NaT for an empty one
RECURSIVE LatestDate(_)
LatestDate(rows) ==
    IF rows = <<>> THEN NaT
    ELSE LET m == LatestDate(Tail(rows))
         IN  IF Head(rows).date > m THEN Head(rows).date ELSE m

\* date(file): the end of the period when the cell right of the first
\* cell holds "a - b" and b is a date (NaT.date() raises, which is
\* swallowed), else the latest date of the frame; NaT for None
FileDate(f) ==
    LET has2   == f.readable /\ f.grid # <<>> /\ Len(f.grid[1]) >= 2
        period == IF has2 THEN Str(f.grid[1][2]) ELSE <<>>
        a      == SepAt(period, 1)
        rest   == IF a = 0 THEN <<>> ELSE SubSeq(period, a + 3, Len(period))
        b      == SepAt(rest, 1)
        end    == IF b = 0 THEN rest ELSE SubSeq(rest, 1, b - 1)
        df     == _data_frame(f)
    IN  IF a # 0 /\ ParseDate(Strip(end)) # NaT THEN ParseDate(Strip(end))
        ELSE IF df.raised THEN NaT
        ELSE LatestDate(df.rows)

\* the call reads what lies at config_path now, unless the instance has
\* loaded its configuration before
SessionCall(c, f) ==
    /\ cfg' = c
    /\ file' = f
    /\ self' = _ensure_config_loaded(self, c)

SessionIdentify ==
    \E c \in SessionConfigs, f \in SessionFiles :
        /\ SessionCall(c, f)
        /\ ret' = [NoRet EXCEPT !.op = "identify",
                     !.bool = f.readable /\ _find_header_row(f.grid) # 0]

SessionAccount ==
    \E c \in SessionConfigs, f \in SessionFiles :
        /\ SessionCall(c, f)
        /\ ret' = [NoRet EXCEPT !.op = "account", !.account = AccountForFile(self', f)]

SessionFileAccount ==
    \E c \in SessionConfigs, f \in SessionFiles :
        /\ SessionCall(c, f)
        /\ ret' = [NoRet EXCEPT !.op = "file_account", !.account = AccountForFile(self', f)]

\* filename(file): the name is made of the account and the date; bool
\* tells whether a name is returned (a date was found), account the
\* account it is made of
SessionFilename ==
    \E c \in SessionConfigs, f \in SessionFiles :
        /\ SessionCall(c, f)
        /\ ret' = [NoRet EXCEPT !.op = "filename",
                     !.bool = FileDate(f) # NaT,
                     !.account = IF FileDate(f) # NaT THEN AccountForFile(self', f)
                                 ELSE NoneStr]

SessionExtract ==
    \E c \in SessionConfigs, f \in SessionFiles :
        /\ SessionCall(c, f)
        /\ ret' = ExtractResult(self', f)

NextSession ==
    \/ SessionIdentify
    \/ SessionAccount
    \/ SessionFileAccount
    \/ SessionFilename
    \/ SessionExtract

InitSession ==
    /\ \E sz \in BOOLEAN :
         self = NewImporter("Assets:SE:Skandia:Default", "SEK", sz, FALSE, TRUE)
    /\ cfg \in SessionConfigs
    /\ file \in SessionFiles
    /\ ret = NoRet

SpecSession == InitSession /\ [][NextSession]_vars

InitDefaults ==
    /\ \E sz \in BOOLEAN :
         self = NewImporter("Assets:SE:Skandia:Default", "SEK", sz, FALSE, TRUE)
    /\ cfg \in DefaultsConfigs
    /\ file \in ClassifyFiles
    /\ ret = NoRet

SpecDefaults == InitDefaults /\ [][Next]_vars

InitRules ==
    /\ self = NewImporter("Assets:SE:Skandia:Default", "SEK", TRUE, FALSE, TRUE)
    /\ cfg \in RuleConfigs
    /\ file \in RuleFiles
    /\ ret = NoRet

SpecRules == InitRules /\ [][Next]_vars

InitSkip ==
    /\ self = NewImporter("Assets:SE:Skandia:Default", "SEK", TRUE, FALSE, TRUE)
    /\ cfg \in SkipConfigs
    /\ file \in SkipFiles
    /\ ret = NoRet

SpecSkip == InitSkip /\ [][Next]_vars

---------------------------------------------------------------------------
(* Properties of extract's result *)

\* extract was the last call and it returned
Returned == ret.op = "extract" /\ ~ret.raised

\* the frame extract built from the file
Frame == _data_frame(file).rows

\* the frame's rows that zero-skipping lets through
KeptRows ==
    SelectSeq(Frame, LAMBDA r : ~(self.skip_zero_amounts /\ DecIsZero(r.amount)))

Txns == SelectSeq(ret.entries, LAMBDA e : e.kind = "Transaction")
Bals == SelectSeq(ret.entries, LAMBDA e : e.kind = "Balance")

\* the description is a text that contains one of the configured transfer
\* keywords / one of the rules-map substrings
HasTransferKeyword(desc) ==
    /\ ~IsNa(desc)
    /\ \E i \in 1..Len(ListOrEmpty(self._transfers_keywords)) :
           Contains(Lower(desc), self._transfers_keywords[i])

HasRuleSubstring(desc) ==
    /\ ~IsNa(desc)
    /\ \E i \in 1..Len(DictOrEmpty(self._rules_map)) :
           Contains(Lower(desc), self._rules_map[i][1])

\* a + b = 0 as numbers
SumsToZero(a, b) ==
    LET e == IF a.exp > b.exp THEN a.exp ELSE b.exp
        v(x) == (IF x.neg THEN -1 ELSE 1) * x.coeff * Pow10(e - x.exp)
    IN  a.tag = "dec" /\ b.tag = "dec" /\ v(a) + v(b) = 0

\* C1: in the list extract returns, the Transaction of a row whose
\* description holds a transfer keyword (transfers enabled) and a rules-map
\* substring (rules enabled) has its counter posting on the account that
\* transfer-destination resolution gives for the description.
C1Holds(rows, txns) ==
    Len(txns) = Len(rows) =>
        \A i \in 1..Len(txns) :
            LET d == rows[i].desc
            IN  ( /\ self._transfers_enabled /\ HasTransferKeyword(d)
                  /\ self._rules_enabled /\ HasRuleSubstring(d) )
                => /\ Len(txns[i].postings) = 2
                   /\ txns[i].postings[2].account = _resolve_transfer_counter(self, d)

C1_TransferPrecedence == Returned => C1Holds(KeptRows, Txns)

\* a row matching both was classified, the destination resolved to a
\* mapped account that differs from what the rules would have given
C1Seen(rows, txns) ==
    /\ Len(txns) = 2
    /\ self._transfers_enabled /\ self._rules_enabled
    /\ HasTransferKeyword(rows[2].desc) /\ HasRuleSubstring(rows[2].desc)
    /\ Len(txns[2].postings) = 2
    /\ txns[2].postings[2].account = "Assets:SE:Skandia:Savings"
    /\ _guess_counter_account(self, rows[2].desc) = "Expenses:Health:Gym"

C1_Witness == Returned /\ C1Seen(KeptRows, Txns)

\* C2: every Transaction extract returns has, first, one posting on the
\* account resolved for the file (the mapped account, else account_name)
\* with the row's amount and the configured currency, and at most one more
\* posting; a row that is no transfer and gets no account from the rules
\* has the first posting only.
C2Holds(rows, txns, mapped) ==
    /\ Len(txns) = Len(rows)
    /\ \A i \in 1..Len(txns) :
         LET d == rows[i].desc
         IN  /\ Len(txns[i].postings) \in {1, 2}
             /\ txns[i].postings[1] =
                    Posting(IF Truthy(mapped) THEN mapped ELSE self.account_name,
                            rows[i].amount, self.currency)
             /\ ( /\ ~(self._transfers_enabled /\ HasTransferKeyword(d))
                  /\ ~(self._rules_enabled /\ HasRuleSubstring(d))
                  /\ ~(self._rules_enabled /\ DictOrEmpty(self._rules_map) # <<>>
                         /\ Truthy(self._rules_default_counter)) )
                => Len(txns[i].postings) = 1

C2_PrimaryPosting ==
    Returned => C2Holds(KeptRows, Txns, _account_from_kontonummer(self, file))

\* a single-posting Transaction on the mapped account next to a two-posting
\* one
C2Seen(txns) ==
    /\ Len(txns) = 2
    /\ Len(txns[1].postings) = 1 /\ Len(txns[2].postings) = 2
    /\ txns[1].postings[1].account = "Assets:SE:Skandia:Checking"

C2_Witness ==
    Returned /\ Truthy(_account_from_kontonummer(self, file)) /\ C2Seen(Txns)

\* C3: in every returned Transaction with a counter posting, the counter
\* posting has the primary posting's currency and the two amounts sum to
\* zero.
C3Holds(txns) ==
    \A i \in 1..Len(txns) :
        Len(txns[i].postings) >= 2 =>
            /\ txns[i].postings[2].currency = txns[i].postings[1].currency
            /\ SumsToZero(txns[i].postings[1].number, txns[i].postings[2].number)
            /\ txns[i].postings[2].number = DecNeg(txns[i].postings[1].number)

C3_CounterBalances == Returned => C3Holds(Txns)

\* a transfer counter posting and a rule-derived one, both of a non-zero
\* amount
C3Seen(txns) ==
    /\ Len(txns) = 2
    /\ Len(txns[1].postings) = 2 /\ Len(txns[2].postings) = 2
    /\ txns[1].postings[2].account = "Expenses:Health:Gym"
    /\ txns[2].postings[2].account = "Expenses:Transfers:Internal"
    /\ txns[1].postings[1].number.coeff # 0

C3_Witness == Returned /\ C3Seen(Txns)

\* the rows of a frame whose amount is not zero
NonZeroRows(frame) == SelectSeq(frame, LAMBDA r : ~DecIsZero(r.amount))

\* C7: with skip_zero_amounts set, the Transactions extract returns are,
\* in order, those of the frame's rows whose amount is not zero: none for
\* a row whose amount is zero (a missing amount cell included), one for
\* every other row.
C7Holds(rows, txns) ==
    /\ Len(txns) = Len(rows)
    /\ \A i \in 1..Len(txns) :
         /\ txns[i].date = rows[i].date
         /\ txns[i].payee = rows[i].desc
         /\ DecEq(txns[i].postings[1].number, rows[i].amount)
         /\ ~DecIsZero(txns[i].postings[1].number)

C7_ZeroRowsSkipped ==
    Returned /\ self.skip_zero_amounts => C7Holds(NonZeroRows(Frame), Txns)

\* a row without amount cell before a non-zero one: one Transaction, the
\* second row's
C7Seen(frame, txns) ==
    /\ Len(frame) = 2
    /\ IsNa(file.grid[Len(file.grid) - 1][3])
    /\ DecIsZero(frame[1].amount) /\ ~DecIsZero(frame[2].amount)
    /\ Len(txns) = 1 /\ txns[1].payee = frame[2].desc

C7_Witness == Returned /\ self.skip_zero_amounts /\ C7Seen(Frame, Txns)

\* with rules enabled and a default_counter configured: the Transaction of
\* every row whose description holds no transfer keyword and no rules-map
\* substring has a counter posting on default_counter
DefaultCounterUsed(rows, txns) ==
    Len(txns) = Len(rows) /\ self._rules_enabled
      /\ Truthy(self._rules_default_counter) =>
        \A i \in 1..Len(txns) :
            LET d == rows[i].desc
            IN  ~IsNa(d) /\ ~HasTransferKeyword(d) /\ ~HasRuleSubstring(d)
                => /\ Len(txns[i].postings) = 2
                   /\ txns[i].postings[2].account = self._rules_default_counter

\* C8 as stated: with rules enabled and a default_counter configured, the
\* Transaction of every row whose description holds no transfer keyword
\* and no rules-map substring has a counter posting on default_counter.
C8_DefaultCounterAlways == Returned => DefaultCounterUsed(KeptRows, Txns)

\* C8 amended: with rules enabled, a rules map that is not empty and a
\* default_counter configured, every Transaction extract returns for a row
\* whose description holds no transfer keyword and no rules-map substring
\* has a counter posting on default_counter.
C8_DefaultCounterWithMap ==
    Returned /\ DictOrEmpty(self._rules_map) # <<>> =>
        DefaultCounterUsed(KeptRows, Txns)

\* a row matching neither got the default counter, next to a row a rule
\* matched
C8Seen(rows, txns) ==
    /\ Len(txns) = 2
    /\ self._rules_enabled /\ DictOrEmpty(self._rules_map) # <<>>
    /\ ~HasTransferKeyword(rows[1].desc) /\ ~HasRuleSubstring(rows[1].desc)
    /\ Len(txns[1].postings) = 2 /\ Len(txns[2].postings) = 2
    /\ txns[1].postings[2].account = "Equity:Unknown"
    /\ HasRuleSubstring(rows[2].desc)
    /\ txns[2].postings[2].account = "Expenses:Health:Gym"

C8_Witness == Returned /\ C8Seen(KeptRows, Txns)

\* the places in a frame of the rows that carry a parsable balance
Bearing(frame) ==
    {i \in 1..Len(frame) : parse_balance(frame[i].balance).tag = "dec"}

\* the last place of S
LastOf(S) == CHOOSE i \in S : \A j \in S : j <= i

\* C4: with balances enabled and granularity "file_end", extract returns
\* one Balance entry when a row carries a parsable balance (none when no
\* row does), however many do: on the account resolved for the file, with
\* the date and the balance of the last such row in row order.
C4Holds(frame, bearing, bals) ==
    IF bearing = {} THEN bals = <<>>
    ELSE /\ Len(bals) = 1
         /\ bals[1].account = AccountForFile(self, file)
         /\ bals[1].date = frame[LastOf(bearing)].date
         /\ bals[1].amount = parse_balance(frame[LastOf(bearing)].balance)
         /\ bals[1].currency = self.currency

C4_FileEndOneBalance ==
    Returned /\ self._balances_enabled /\ self._balances_granularity = FileEnd =>
        C4Holds(Frame, Bearing(Frame), Bals)

\* three rows, two of them with a balance, the last without: the one
\* Balance entry is the second row's
C4Seen(frame, bearing, bals) ==
    /\ Len(frame) = 3 /\ bearing = {1, 2}
    /\ frame[1].date # frame[2].date
    /\ ~DecEq(parse_balance(frame[1].balance), parse_balance(frame[2].balance))
    /\ Len(bals) = 1 /\ bals[1].date = frame[2].date

C4_Witness ==
    /\ Returned /\ self._balances_enabled /\ self._balances_granularity = FileEnd
    /\ C4Seen(Frame, Bearing(Frame), Bals)

\* C5: with balances enabled and granularity "daily", extract returns one
\* Balance entry for every date that has a row with a parsable balance and
\* none for any other date; the entry of a date carries the balance of the
\* last such row of that date in row order, wherever the date's rows are.
C5Holds(frame, bearing, bals) ==
    LET dates == {frame[i].date : i \in bearing}
    IN  /\ Len(bals) = Cardinality(dates)
        /\ {bals[k].date : k \in 1..Len(bals)} = dates
        /\ \A k \in 1..Len(bals) :
             LET last == LastOf({i \in bearing : frame[i].date = bals[k].date})
             IN  /\ bals[k].amount = parse_balance(frame[last].balance)
                 /\ bals[k].account = AccountForFile(self, file)
                 /\ bals[k].currency = self.currency

C5_DailyOnePerDate ==
    Returned /\ self._balances_enabled /\ self._balances_granularity = Daily =>
        C5Holds(Frame, Bearing(Frame), Bals)

\* a date whose two balance-bearing rows are separated by a row of another
\* date: two Balance entries, the first date's with its later row's balance
C5Seen(frame, bearing, bals) ==
    /\ Len(frame) = 3 /\ bearing = {1, 2, 3}
    /\ frame[1].date = frame[3].date /\ frame[1].date # frame[2].date
    /\ ~DecEq(parse_balance(frame[1].balance), parse_balance(frame[3].balance))
    /\ Len(bals) = 2
    /\ \E k \in 1..2 : /\ bals[k].date = frame[3].date
                       /\ bals[k].amount = parse_balance(frame[3].balance)

C5_Witness ==
    /\ Returned /\ self._balances_enabled /\ self._balances_granularity = Daily
    /\ C5Seen(Frame, Bearing(Frame), Bals)

---------------------------------------------------------------------------
(* Properties of the normaliser, the locator and the account resolver *)

\* Decimal() fails on the cell text, and again after every character
\* other than digits, "." and "-" is stripped
FailsBothParses(x) ==
    /\ ~IsNa(x)
    /\ DecimalOf(Delocalise(x)).tag = "raised"
    /\ DecimalOf(KeepNumeric(Delocalise(x))).tag = "raised"

\* the data row of a one-row statement
OnlyRow == file.grid[Len(file.grid)]

\* C9: extract never raises on account of a cell text; an amount that
\* fails both parses counts as zero (with zero-skipping: no Transaction),
\* and a balance that fails both parses gives no Balance entry.
C9_NormalisationNeverRaises ==
    ret.op = "extract" =>
        /\ ~ret.raised
        /\ FailsBothParses(OnlyRow[3]) /\ self.skip_zero_amounts => Txns = <<>>
        /\ FailsBothParses(OnlyRow[4]) => Bals = <<>>

\* a row qualifies as header: it has four cells and, trimmed, they are the
\* four labels in order
Qualifies(row) ==
    Len(row) >= 4 /\ \A j \in 1..4 : Strip(Str(row[j])) = SWEDISH_HEADERS[j]

QualifyingRows(grid) == {i \in 1..Len(grid) : Qualifies(grid[i])}

\* C10: identify returns True exactly when the file can be read and its
\* grid has a qualifying row, False otherwise, and never raises; the
\* header row found is the topmost qualifying row.
C10Holds(rows) ==
    /\ ~ret.raised
    /\ ret.bool = (file.readable /\ rows # {})
    /\ rows # {} =>
         _find_header_row(file.grid) = CHOOSE i \in rows : \A j \in rows : i <= j

C10_IdentifyHeader ==
    ret.op = "identify" => C10Holds(QualifyingRows(file.grid))

\* identify said True on a grid whose second and third row both qualify,
\* the second one only after trimming
C10_Witness ==
    /\ ret.op = "identify" /\ ret.bool
    /\ QualifyingRows(file.grid) = {2, 3}
    /\ file.grid[2] = HeaderPadded

\* the account number as the statement writes it: the cell right of
\* "Kontonummer", else what follows "Kontonummer " in the first cell
WrittenNumber ==
    IF IsNa(file.grid[1][2])
    THEN SubSeq(file.grid[1][1], Len(TxtKontonummer) + 2, Len(file.grid[1][1]))
    ELSE Strip(file.grid[1][2])

\* the account the last call resolved for the file
ResolvedAccount(txns) ==
    IF ret.op = "extract" THEN txns[1].postings[1].account ELSE ret.account

\* the account a statement with the plain digits k resolves to
PlainAccount(k) ==
    IF Truthy(DictGet(self._account_map, k))
    THEN DictGet(self._account_map, k) ELSE self.account_name

Resolving == ret.op \in {"account", "file_account"} \/ Returned

\* C6 as stated: when the digits of the written number are a key of the
\* AccountMap, the file resolves to the account of the plain digits.
C6_WrittenFormResolves ==
    Resolving /\ DictHas(self._account_map, Filter(WrittenNumber, Digits)) =>
        ResolvedAccount(Txns) = PlainAccount(Filter(WrittenNumber, Digits))

\* C6 amended: the same, when the written form is not itself a key of the
\* AccountMap and, where label and number share a cell, holds no space.
C6_WrittenFormResolvesUnlessKey ==
    Resolving /\ DictHas(self._account_map, Filter(WrittenNumber, Digits))
      /\ ( WrittenNumber = Filter(WrittenNumber, Digits)
           \/ ~DictHas(self._account_map, WrittenNumber) )
      /\ ( IsNa(file.grid[1][2]) => ~Contains(WrittenNumber, <<" ">>) ) =>
        ResolvedAccount(Txns) = PlainAccount(Filter(WrittenNumber, Digits))

\* a number written with dots and a space, right of the label, resolved to
\* the account stored under its digits
C6_Witness ==
    /\ ret.op = "file_account"
    /\ ~IsNa(file.grid[1][2])
    /\ Contains(WrittenNumber, <<".">>) /\ Contains(WrittenNumber, <<" ">>)
    /\ ~DictHas(self._account_map, WrittenNumber)
    /\ DictGet(self._account_map, Filter(WrittenNumber, Digits)) = "Assets:B"
    /\ ret.account = "Assets:B"

---------------------------------------------------------------------------
(* Properties of the tabular extractor *)

\* the date cell is present, not blank, and parses as a date
GoodDate(row) ==
    ~IsNa(row[1]) /\ Strip(Str(row[1])) # <<>> /\ ParseDate(row[1]) # NaT

\* the rows strictly below the topmost qualifying row
BelowHeader(grid, rows) ==
    SubSeq(grid, (CHOOSE i \in rows : \A j \in rows : i <= j) + 1, Len(grid))

\* extract returned, its frame is the good rows in order, and without
\* zero-skipping there is one Transaction per good row, with its date and
\* description
C11Holds(good, txns) ==
    /\ ~ret.raised
    /\ Frame = [i \in 1..Len(good) |-> FrameRow(good[i])]
    /\ ~self.skip_zero_amounts =>
         /\ Len(txns) = Len(good)
         /\ \A i \in 1..Len(txns) :
              txns[i].date = ParseDate(good[i][1]) /\ txns[i].payee = good[i][2]

\* C11: for a statement with a header, the extractor's output is, in row
\* order, exactly the rows below the header whose date cell is present,
\* not blank and parses; the other rows are absent and raise nothing, and
\* a missing amount or balance drops no row.
C11_ExtractorRows ==
    ret.op = "extract" /\ file.readable /\ QualifyingRows(file.grid) # {} =>
        C11Holds(SelectSeq(BelowHeader(file.grid, QualifyingRows(file.grid)), GoodDate),
                 Txns)

---------------------------------------------------------------------------
(* Properties of the posting signs *)

\* -1, 0 or 1
Sign(d) == IF d.coeff = 0 THEN 0 ELSE IF d.neg THEN -1 ELSE 1

\* C12: the primary posting has the sign of the row's amount when
\* positive_is_increase is off and the opposite sign when it is set.
C12Holds(rows, txns) ==
    \A i \in 1..Len(txns) :
        Sign(txns[i].postings[1].number) =
            IF self.positive_is_increase THEN -Sign(rows[i].amount)
            ELSE Sign(rows[i].amount)

C12_SignConvention ==
    Returned => C12Holds(KeptRows, Txns)

---------------------------------------------------------------------------
(* Properties of transfer-destination resolution *)

\* the map gives key an account (a non-empty account name)
MapsTo(amap, key) == DictHas(amap, key) /\ DictGet(amap, key) \notin {NoneStr, ""}

\* the windows <<length, start>> of digits that the map gives an account
MappedWindows(amap, digits) ==
    {w \in (MinWindow..MaxWindow) \X (1..Len(digits)) :
        /\ w[2] + w[1] - 1 <= Len(digits)
        /\ MapsTo(amap, SubSeq(digits, w[2], w[2] + w[1] - 1))}

\* the longest of them, the leftmost among the longest
BestWindow(W) ==
    CHOOSE w \in W : \A v \in W : v[1] < w[1] \/ (v[1] = w[1] /\ w[2] <= v[2])

\* what the claim says resolution returns
ExpectedCounter(amap, digits) ==
    IF self._transfers_parse_dest_in_desc /\ amap # <<>> /\ Len(digits) >= 8
    THEN IF MapsTo(amap, digits) THEN DictGet(amap, digits)
         ELSE IF MappedWindows(amap, digits) # {}
         THEN LET w == BestWindow(MappedWindows(amap, digits))
              IN  DictGet(amap, SubSeq(digits, w[2], w[2] + w[1] - 1))
         ELSE self._transfers_classify_account
    ELSE self._transfers_classify_account

\* C13: a detected transfer gets a counter posting on the account mapped
\* (to a non-empty name) to the whole digit string of the description,
\* else on the first mapped window by length 12..8 and leftmost first,
\* else (no match, fewer than 8 digits, parsing off, no map) on the
\* transfer-classification account.
C13Holds(rows, txns) ==
    \A i \in 1..Len(txns) :
        HasTransferKeyword(rows[i].desc) =>
            /\ Len(txns[i].postings) = 2
            /\ txns[i].postings[2].account =
                 ExpectedCounter(DictOrEmpty(self._account_map),
                                 Filter(rows[i].desc, Digits))
            /\ txns[i].postings[2].account \notin {NoneStr, ""}

C13_TransferDestination ==
    Returned => C13Holds(KeptRows, Txns)

\* 13 digits, both 12-digit windows and an 8-digit window mapped, the whole
\* string not: the left 12-digit window won
C13_Witness ==
    /\ Returned /\ Len(Txns) = 1
    /\ Len(Filter(KeptRows[1].desc, Digits)) = 13
    /\ ~DictHas(self._account_map, DigitRun(13))
    /\ DictHas(self._account_map, SubSeq(DigitRun(13), 2, 13))
    /\ DictHas(self._account_map, DigitRun(8))
    /\ Len(Txns[1].postings) = 2
    /\ Txns[1].postings[2].account = "Assets:Left12"

---------------------------------------------------------------------------
(* Properties of the AccountMap construction *)

\* C14: after the load every configured key resolves to its configured
\* account (no raw entry is overwritten by a normalised one, whatever the
\* order of the keys), and the digits of every key are a key too.
C14Holds(accounts, amap) ==
    \A i \in 1..Len(accounts) :
        /\ DictGet(amap, accounts[i][1]) = accounts[i][2]
        /\ DictHas(amap, Filter(accounts[i][1], Digits))

C14_RawEntriesKept ==
    self._config_loaded => C14Holds(cfg.accounts, self._account_map)

---------------------------------------------------------------------------
(* Properties of the order of the entries *)

\* the Transactions come first and follow the rows they were made from
TxnsFirstInRowOrder(entries, rows, txns, bals) ==
    /\ entries = txns \o bals
    /\ Len(txns) = Len(rows)
    /\ \A i \in 1..Len(txns) :
         /\ txns[i].date = rows[i].date
         /\ txns[i].postings[1].number = rows[i].amount

\* the Balance entries are in ascending date order
BalsAscending(bals) ==
    \A i \in 1..Len(bals) : \A j \in 1..Len(bals) :
        i < j => bals[i].date <= bals[j].date

\* C15: extract returns all Transactions in row order, then all Balance
\* entries in ascending date order, also for a statement whose rows are
\* not in chronological order.
C15_OutputOrder ==
    Returned =>
        /\ TxnsFirstInRowOrder(ret.entries, KeptRows, Txns, Bals)
        /\ BalsAscending(Bals)

---------------------------------------------------------------------------
(* Properties of the configuration load *)

\* C16: the configuration is loaded by the first call and by no other:
\* before any call the instance is not loaded, after any call it is, and
\* no call on a loaded instance changes its account name, currency,
\* AccountMap, balance policy, rules or transfer settings, whatever the
\* file and whatever lies at config_path.
C16Step ==
    /\ self._config_loaded <=> ret.op # "none"
    /\ ret'.op # "none" => self'._config_loaded
    /\ self._config_loaded => self' = self

C16_LoadedOnce == [][C16Step]_vars

\* a call on an instance that loaded the first data configuration, made
\* while the other data configuration lies at config_path
C16_Witness ==
    /\ ret.op = "extract" /\ ~ret.raised /\ ret.entries # <<>>
    /\ cfg.kind = "data" /\ cfg.default_account = "Assets:SE:Skandia:Other"
    /\ self._config_loaded
    /\ self.account_name = "Assets:SE:Skandia:Test"
    /\ self.currency = "SEK"
    /\ self._rules_enabled /\ ~self._transfers_enabled

---------------------------------------------------------------------------
(* Properties of an unreadable configuration *)

\* the instance as it would be had no configuration file been present
WithoutConfigFile == _ensure_config_loaded([self EXCEPT !._config_loaded = FALSE], NoConfig)

\* C17: with a configuration file that is unreadable or parses to
\* nothing, the load raises nothing and leaves the default configuration
\* (balances and rules off, transfer detection on with the default
\* keywords), and extract returns what it returns without a
\* configuration file.
C17Holds(dflt) ==
    /\ self._config_loaded
    /\ ~self._balances_enabled /\ ~self._rules_enabled /\ self._transfers_enabled
    /\ self._transfers_keywords = DefaultKeywords
    /\ ret.op = "extract" => ret = ExtractResult(dflt, file)

C17_UnreadableIsDefault ==
    ret.op # "none" /\ (cfg.kind = "unreadable" \/ cfg = EmptyConfig) =>
        C17Holds(WithoutConfigFile)

---------------------------------------------------------------------------
(* Properties of the keyword rules *)

\* the configured entries whose substring occurs in the description,
\* case-insensitively
MatchingRules(map, desc) ==
    {k \in 1..Len(map) : Contains(Lower(desc), Lower(map[k][1]))}

\* no two configured substrings are the same up to case
CaseDistinct(map) ==
    \A i \in 1..Len(map) : \A j \in 1..Len(map) :
        i # j => Lower(map[i][1]) # Lower(map[j][1])

\* every non-transfer row that some configured substring matches is
\* countered on the account of the earliest configured matching entry
C18Holds(map, rows, txns) ==
    \A i \in 1..Len(txns) :
        ~HasTransferKeyword(rows[i].desc) /\ MatchingRules(map, rows[i].desc) # {} =>
            /\ Len(txns[i].postings) = 2
            /\ txns[i].postings[2].account =
                 map[CHOOSE k \in MatchingRules(map, rows[i].desc) :
                        \A l \in MatchingRules(map, rows[i].desc) : k <= l][2]

\* C18 as stated: with rules enabled, the earliest configured matching
\* entry gives the counter account of a non-transfer row.
C18_FirstRuleWins ==
    Returned /\ self._rules_enabled => C18Holds(cfg.rules.map, KeptRows, Txns)

\* C18 amended: the same, when no two configured substrings are equal up
\* to case.
C18_FirstRuleWinsCaseDistinct ==
    Returned /\ self._rules_enabled /\ CaseDistinct(cfg.rules.map) =>
        C18Holds(cfg.rules.map, KeptRows, Txns)

\* "Malkars Gym" with GYM configured before MALKARS: the shorter substring
\* that occurs later in the description won
C18_Witness ==
    /\ Returned /\ Len(Txns) = 1
    /\ KeptRows[1].desc = DescRule
    /\ Len(cfg.rules.map) = 2
    /\ cfg.rules.map[1][1] = KeyGym /\ cfg.rules.map[2][1] = KeyMalkars
    /\ Len(Txns[1].postings) = 2
    /\ Txns[1].postings[2].account = "Expenses:Rule1"

\* the places of the rows whose balance is asserted: the last
\* balance-bearing row of the frame ("file_end"), or the last one of every
\* date ("daily")
AssertedRows(frame, bearing, gran) ==
    IF gran = FileEnd
    THEN {i \in bearing : \A j \in bearing : j <= i}
    ELSE {i \in bearing :
             \A j \in bearing : frame[j].date = frame[i].date => j <= i}

\* the places of the rows that zero-skipping drops
SkippedRows(frame) ==
    {i \in 1..Len(frame) : self.skip_zero_amounts /\ DecIsZero(frame[i].amount)}

\* C19: balance assertions are computed from all rows of the frame, not
\* only from those that produced a Transaction: under "file_end" and under
\* "daily" alike there is one Balance entry for every asserted row among
\* all balance-bearing rows, in row order, with that row's date and
\* balance, also where the row has a zero or absent amount and was skipped;
\* the skipped rows produce no Transaction.
C19Holds(frame, asserted, txns, bals) ==
    /\ Len(txns) = Len(frame) - Cardinality(SkippedRows(frame))
    /\ Len(bals) = Cardinality(asserted)
    /\ \A i \in asserted :
         LET k == Cardinality({j \in asserted : j <= i})
         IN  /\ bals[k].date = frame[i].date
             /\ bals[k].amount = parse_balance(frame[i].balance)

C19_BalancesFromAllRows ==
    Returned /\ self._balances_enabled =>
        C19Holds(Frame, AssertedRows(Frame, Bearing(Frame), self._balances_granularity),
                 Txns, Bals)

\* two rows of one date, each with a balance of its own, the second with a
\* zero or absent amount and skipped: one Transaction, and the one Balance
\* entry carries the skipped row's balance
C19Seen(frame, txns, bals) ==
    /\ Len(frame) = 2 /\ Bearing(frame) = {1, 2} /\ SkippedRows(frame) = {2}
    /\ frame[1].date = frame[2].date
    /\ ~DecEq(parse_balance(frame[1].balance), parse_balance(frame[2].balance))
    /\ Len(txns) = 1 /\ Len(bals) = 1
    /\ bals[1].amount = parse_balance(frame[2].balance)

C19_Witness ==
    /\ Returned /\ self._balances_enabled
    /\ C19Seen(Frame, Txns, Bals)

====
